---- MODULE Spec2Model ----
(***************************************************************************)
(* Model of the basket client (src/src/lib.rs): the Basket value, its nine *)
(* async operations, the form/query serialisation of their payloads, the   *)
(* decoding of the {status, ...data} response envelope and the mapping of  *)
(* the decoded envelope to the Result each operation returns.              *)
(*                                                                         *)
(* Strings that the code builds by concatenation (newsletters.join(","),   *)
(* serde_json::to_string) are sequences of pieces; an Option<T> is the     *)
(* empty sequence (None) or a one-element sequence (Some(v)).              *)
(***************************************************************************)
EXTENDS Integers, Sequences, FiniteSets, TLC

VARIABLES api_key, basket_url, calls

vars == <<api_key, basket_url, calls>>

----------------------------------------------------------------------------
(* Bounds of the model *)

NumCallers == 2
MaxNewsletters == 2
MaxOptsSet == 2
MaxBodyLen == 2

Callers == 1..NumCallers
MainCaller == CHOOSE c \in Callers : \A d \in Callers : c <= d

----------------------------------------------------------------------------
(* Option<T> *)

None == <<>>
Some(v) == <<v>>
Opt(S) == {None} \cup {Some(v) : v \in S}

----------------------------------------------------------------------------
(* Payload enums and their serde serialisation (unit variant -> its name) *)

Format == {"H", "T"}
YesNo == {"Y", "N"}

----------------------------------------------------------------------------
(* Input domains *)

ApiKeys == {"key-1"}
Emails == {"x@example.com", "y@example.com"}
Tokens == {"bad-token", "tok-2"}
SuperTokens == {"super-1"}
NewsletterIds == <<"news1", "news2", "news3", "news4">>
NewsletterLists == {SubSeq(NewsletterIds, 1, n) : n \in 0..MaxNewsletters}

BaseUrls ==
    { [cannot_be_a_base |-> FALSE, origin |-> "https://basket.example", path |-> <<>>],
      [cannot_be_a_base |-> FALSE, origin |-> "https://basket.example", path |-> <<"api", "v1">>],
      [cannot_be_a_base |-> TRUE, origin |-> "mailto:", path |-> <<"ops@example.com">>] }

NoUrl == [cannot_be_a_base |-> TRUE, origin |-> "", path |-> <<>>]

(* Url::join with an input that starts with "/": the base's path is       *)
(* replaced; a cannot-be-a-base URL has nothing to resolve against.       *)
url_join(base, path) ==
    IF base.cannot_be_a_base
    THEN [ok |-> FALSE, url |-> NoUrl]
    ELSE [ok |-> TRUE,
          url |-> [cannot_be_a_base |-> FALSE, origin |-> base.origin, path |-> path]]

----------------------------------------------------------------------------
(* Request payloads *)

RECURSIVE join(_, _)
join(list, sep) ==
    IF list = <<>> THEN <<>>
    ELSE IF Len(list) = 1 THEN <<list[1]>>
    ELSE <<list[1], sep>> \o join(Tail(list), sep)

SubscribeOptsFields ==
    <<"format", "country", "lang", "optin", "source_url", "trigger_welcome", "sync">>

UpdateUserOptsFields == <<"format", "country", "lang", "optin", "newsletters">>

NumSet(o) == Cardinality({f \in DOMAIN o : o[f] # None})

SubscribeOpts ==
    { o \in [format : Opt(Format), country : Opt({"US"}), lang : Opt({"en"}),
             optin : Opt(YesNo), source_url : Opt({"https://example.com/"}),
             trigger_welcome : Opt(YesNo), sync : Opt(YesNo)] :
        NumSet(o) <= MaxOptsSet }

UpdateUserOpts ==
    { o \in [format : Opt(Format), country : Opt({"US"}), lang : Opt({"en"}),
             optin : Opt(YesNo), newsletters : Opt({"news1,news2"})] :
        NumSet(o) <= MaxOptsSet }

(* Variant: an unset field is written with an empty value *)
RECURSIVE SerializeFields_placeholder(_, _)
SerializeFields_placeholder(rec, fields) ==
    IF fields = <<>> THEN <<>>
    ELSE (IF rec[fields[1]] = None
          THEN << <<fields[1], <<>> >> >>
          ELSE << <<fields[1], <<rec[fields[1]][1]>> >> >>)
         \o SerializeFields_placeholder(rec, Tail(fields))

(* serde_urlencoded over a struct: one pair per field in declaration      *)
(* order, a None value writes nothing.                                    *)
RECURSIVE SerializeFields(_, _)
SerializeFields(rec, fields) ==
    IF fields = <<>> THEN <<>>
    ELSE (IF rec[fields[1]] = None
          THEN <<>>
          ELSE << <<fields[1], <<rec[fields[1]][1]>> >> >>)
         \o SerializeFields(rec, Tail(fields))

(* #[serde(flatten)] opts: Option<...>: None contributes no field *)
SerializeFlattenOpts(opts, fields) ==
    IF opts = None THEN <<>> ELSE SerializeFields(opts[1], fields)

Subscribe(email, newsletters, opts) ==
    << <<"email", <<email>> >>, <<"newsletters", newsletters>> >>
        \o SerializeFlattenOpts(opts, SubscribeOptsFields)

Unsubscribe(newsletters, optout) ==
    << <<"newsletters", newsletters>>, <<"optout", <<optout>> >> >>

UpdateUser(email, opts) ==
    SerializeFields([email |-> email], <<"email">>)
        \o SerializeFlattenOpts(opts, UpdateUserOptsFields)

DebugUser(email, supertoken) ==
    << <<"email", <<email>> >>, <<"supertoken", <<supertoken>> >> >>

LookupUser(email, key) ==
    << <<"email", <<email>> >>, <<"api-key", <<key>> >> >>

Recover(email) == << <<"email", <<email>> >> >>

----------------------------------------------------------------------------
(* Requests *)

NoRequest == [method |-> "NONE", url |-> NoUrl, query |-> <<>>, form |-> <<>>]

Post(url, query, form) == [method |-> "POST", url |-> url, query |-> query, form |-> form]
Get(url, query) == [method |-> "GET", url |-> url, query |-> query, form |-> <<>>]

----------------------------------------------------------------------------
(* Responses: an HTTP status code and a body.  A body is a byte stream    *)
(* that cannot be read to its end (io_error), is not JSON (invalid), is a *)
(* JSON value that is not an object (array), or is a JSON object: its     *)
(* members in the order they appear in the text.                          *)

JString(s) == [ty |-> "string", v |-> s]
JNull == [ty |-> "null", v |-> "null"]

StatusVals == {JString("ok"), JString("error"), JString("OK"), JNull}

Members ==
    [key : {"status"}, val : StatusVals]
    \cup { [key |-> "desc", val |-> JString("Token not found")],
           [key |-> "code", val |-> JNull] }

(* key order of serde_json's Map (a BTreeMap) over the keys above *)
KeysSorted == <<"code", "desc", "status">>

RECURSIVE SeqsUpTo(_, _)
SeqsUpTo(S, n) ==
    IF n = 0 THEN {<<>>}
    ELSE LET shorter == SeqsUpTo(S, n - 1)
         IN shorter \cup {Append(q, x) : q \in {r \in shorter : Len(r) = n - 1}, x \in S}

Bodies ==
    { [kind |-> "io_error", members |-> <<>>],
      [kind |-> "invalid", members |-> <<>>],
      [kind |-> "array", members |-> <<>>] }
    \cup { [kind |-> "object", members |-> m] : m \in SeqsUpTo(Members, MaxBodyLen) }

HttpStatuses == {200, 500}

Responses == [http_status : HttpStatuses, body : Bodies]

NoResponse == [http_status |-> 0, body |-> [kind |-> "none", members |-> <<>>]]

----------------------------------------------------------------------------
(* The envelope *)

EmptyObject == [k \in {} |-> JNull]
ValueObject(m) == [ty |-> "object", obj |-> m]
ValueNull == [ty |-> "null", obj |-> EmptyObject]
is_null(value) == value.ty = "null"

NoEnvelope == [status |-> "none", data |-> ValueNull]

(* Variant: the variant names are matched without regard to case *)
Status_caseless(json) ==
    IF json \in {JString("ok"), JString("OK")} THEN Some("Ok")
    ELSE IF json = JString("error") THEN Some("Error")
    ELSE None

(* #[serde(rename_all = "lowercase")] enum Status { Ok, Error } *)
Status(json) ==
    IF json = JString("ok") THEN Some("Ok")
    ELSE IF json = JString("error") THEN Some("Error")
    ELSE None

(* impl fmt::Display for Status *)
StatusDisplay(status) == IF status = "Ok" THEN "ok" ELSE "error"

(* Map::insert: a later member with the same key replaces the earlier one *)
MapInsert(m, k, v) == [x \in DOMAIN m \cup {k} |-> IF x = k THEN v ELSE m[x]]

(* The derived Deserialize of ApiResponse, member by member: `status` is  *)
(* the one named field (a second one is a duplicate-field error, a value  *)
(* that is no variant of Status is an error), every other member is       *)
(* collected for the flattened `data`; a missing `status` is an error.    *)
RECURSIVE VisitMap(_, _, _)
VisitMap(members, status, collect) ==
    IF members = <<>>
    THEN IF status = None
         THEN [ok |-> FALSE, envelope |-> NoEnvelope]
         ELSE [ok |-> TRUE,
               envelope |-> [status |-> status[1], data |-> ValueObject(collect)]]
    ELSE LET m == members[1] IN
         IF m.key = "status"
         THEN IF status # None \/ Status(m.val) = None
              THEN [ok |-> FALSE, envelope |-> NoEnvelope]
              ELSE VisitMap(Tail(members), Status(m.val), collect)
         ELSE VisitMap(Tail(members), status, MapInsert(collect, m.key, m.val))

ApiResponse(body) ==
    IF body.kind = "object"
    THEN VisitMap(body.members, None, EmptyObject)
    ELSE [ok |-> FALSE, envelope |-> NoEnvelope]

(* serde_json::to_string of a Value: compact, keys in map order *)
JsonToken(j) == IF j.ty = "null" THEN "null" ELSE "\"" \o j.v \o "\""

RECURSIVE ObjectTokens(_, _, _)
ObjectTokens(m, keys, first) ==
    IF keys = <<>> THEN <<>>
    ELSE IF keys[1] \in DOMAIN m
         THEN (IF first THEN <<>> ELSE <<",">>)
              \o <<"\"" \o keys[1] \o "\"", ":", JsonToken(m[keys[1]])>>
              \o ObjectTokens(m, Tail(keys), FALSE)
         ELSE ObjectTokens(m, Tail(keys), first)

to_string(value) ==
    IF is_null(value) THEN <<"null">>
    ELSE <<"{">> \o ObjectTokens(value.obj, KeysSorted, TRUE) \o <<"}">>

(* impl fmt::Display for ApiResponse *)
ApiResponseDisplay(r) ==
    IF r.status = "Ok" /\ ~is_null(r.data)
    THEN to_string(r.data)
    ELSE <<StatusDisplay(r.status)>>

----------------------------------------------------------------------------
(* Result<_, failure::Error> of a call *)

Unit == [ty |-> "unit", obj |-> EmptyObject]
NoError == [type |-> "none", envelope |-> NoEnvelope]

Pending == [kind |-> "pending", value |-> Unit, err |-> NoError]
Ok(value) == [kind |-> "Ok", value |-> value, err |-> NoError]
Err(type, envelope) ==
    [kind |-> "Err", value |-> Unit, err |-> [type |-> type, envelope |-> envelope]]

(* the match on res.json::<ApiResponse>().await, one per operation *)
subscribe_match(r) ==
    IF r.ok /\ r.envelope.status = "Ok" THEN Ok(Unit)
    ELSE IF r.ok THEN Err("ApiResponse", r.envelope)
    ELSE Err("reqwest::Error", NoEnvelope)

subscribe_private_match(r) ==
    IF r.ok /\ r.envelope.status = "Ok" THEN Ok(Unit)
    ELSE IF r.ok THEN Err("ApiResponse", r.envelope)
    ELSE Err("reqwest::Error", NoEnvelope)

unsubscribe_match(r) ==
    IF r.ok /\ r.envelope.status = "Ok" THEN Ok(Unit)
    ELSE IF r.ok THEN Err("ApiResponse", r.envelope)
    ELSE Err("reqwest::Error", NoEnvelope)

(* Variant: the data is returned whatever the status *)
get_user_match_unchecked(r) ==
    IF r.ok THEN Ok(r.envelope.data)
    ELSE Err("reqwest::Error", NoEnvelope)

get_user_match(r) ==
    IF r.ok /\ r.envelope.status = "Ok" THEN Ok(r.envelope.data)
    ELSE IF r.ok THEN Err("ApiResponse", r.envelope)
    ELSE Err("reqwest::Error", NoEnvelope)

update_user_match(r) ==
    IF r.ok /\ r.envelope.status = "Ok" THEN Ok(Unit)
    ELSE IF r.ok THEN Err("ApiResponse", r.envelope)
    ELSE Err("reqwest::Error", NoEnvelope)

newsletters_match(r) ==
    IF r.ok /\ r.envelope.status = "Ok" THEN Ok(r.envelope.data)
    ELSE IF r.ok THEN Err("ApiResponse", r.envelope)
    ELSE Err("reqwest::Error", NoEnvelope)

debug_user_match(r) ==
    IF r.ok /\ r.envelope.status = "Ok" THEN Ok(r.envelope.data)
    ELSE IF r.ok THEN Err("ApiResponse", r.envelope)
    ELSE Err("reqwest::Error", NoEnvelope)

lookup_user_match(r) ==
    IF r.ok /\ r.envelope.status = "Ok" THEN Ok(r.envelope.data)
    ELSE IF r.ok THEN Err("ApiResponse", r.envelope)
    ELSE Err("reqwest::Error", NoEnvelope)

(* Variant: the guard of the first arm is inverted *)
recover_match_inverted(r) ==
    IF r.ok /\ r.envelope.status = "Error" THEN Ok(Unit)
    ELSE IF r.ok THEN Err("ApiResponse", r.envelope)
    ELSE Err("reqwest::Error", NoEnvelope)

recover_match(r) ==
    IF r.ok /\ r.envelope.status = "Ok" THEN Ok(Unit)
    ELSE IF r.ok THEN Err("ApiResponse", r.envelope)
    ELSE Err("reqwest::Error", NoEnvelope)

WriteOps == {"subscribe", "subscribe_private", "unsubscribe", "update_user", "recover"}
ReadOps == {"get_user", "newsletters", "debug_user", "lookup_user"}
Ops == WriteOps \cup ReadOps

Match(op, r) ==
    CASE op = "subscribe" -> subscribe_match(r)
      [] op = "subscribe_private" -> subscribe_private_match(r)
      [] op = "unsubscribe" -> unsubscribe_match(r)
      [] op = "get_user" -> get_user_match(r)
      [] op = "update_user" -> update_user_match(r)
      [] op = "newsletters" -> newsletters_match(r)
      [] op = "debug_user" -> debug_user_match(r)
      [] op = "lookup_user" -> lookup_user_match(r)
      [] op = "recover" -> recover_match(r)

----------------------------------------------------------------------------
(* The calls.  calls[c] is the call caller c has in progress: where it is *)
(* (idle, awaiting send(), awaiting json(), returned), its arguments, the *)
(* request it sent, how many requests it sent, the response it got and    *)
(* the Result it returned.                                                *)

NoArgs == [email |-> "", token |-> "", newsletters |-> <<>>, opts |-> None,
           optout |-> "", supertoken |-> ""]

Idle == [pc |-> "idle", op |-> "none", args |-> NoArgs, req |-> NoRequest,
         sent |-> 0, res |-> NoResponse, outcome |-> Pending]

(* Basket::new: the client holds what it was given *)
new(key, url) ==
    /\ api_key = key
    /\ basket_url = url
    /\ calls = [c \in Callers |-> Idle]

Init == \E key \in ApiKeys, url \in BaseUrls : new(key, url)

(* `join(..)?` then `.send()`: a failed join returns before anything is   *)
(* sent, otherwise the request goes out and the call awaits the response. *)
Begin(c, op, args, joined, req) ==
    /\ calls[c].pc = "idle"
    /\ calls' = [calls EXCEPT ![c] =
          IF joined.ok
          THEN [@ EXCEPT !.pc = "send", !.op = op, !.args = args, !.req = req,
                         !.sent = @ + 1]
          ELSE [@ EXCEPT !.pc = "done", !.op = op, !.args = args,
                         !.outcome = Err("url::ParseError", NoEnvelope)]]
    /\ UNCHANGED <<api_key, basket_url>>

(* Variant: the public subscribe attaches the api key too *)
subscribe_with_key(c, In) ==
    \E email \in In.emails, newsletters \in In.newsletters, opts \in In.subscribe_opts :
        LET form == Subscribe(email, join(newsletters, ","), opts)
            joined == url_join(basket_url, <<"news", "subscribe">>)
        IN Begin(c, "subscribe",
                 [NoArgs EXCEPT !.email = email, !.newsletters = newsletters, !.opts = opts],
                 joined, Post(joined.url, << <<"api-key", <<api_key>> >> >>, form))

subscribe(c, In) ==
    \E email \in In.emails, newsletters \in In.newsletters, opts \in In.subscribe_opts :
        LET form == Subscribe(email, join(newsletters, ","), opts)
            joined == url_join(basket_url, <<"news", "subscribe">>)
        IN Begin(c, "subscribe",
                 [NoArgs EXCEPT !.email = email, !.newsletters = newsletters, !.opts = opts],
                 joined, Post(joined.url, <<>>, form))

(* Variant: the call moves the key out of the shared client *)
subscribe_private_takes_key(c, In) ==
    /\ calls[c].pc = "idle"
    /\ \E email \in In.emails, newsletters \in In.newsletters, opts \in In.subscribe_opts :
        LET form == Subscribe(email, join(newsletters, ","), opts)
            joined == url_join(basket_url, <<"news", "subscribe">>)
            args == [NoArgs EXCEPT !.email = email, !.newsletters = newsletters,
                                   !.opts = opts]
            req == Post(joined.url, << <<"api-key", <<api_key>> >> >>, form)
        IN calls' = [calls EXCEPT ![c] =
              IF joined.ok
              THEN [@ EXCEPT !.pc = "send", !.op = "subscribe_private", !.args = args,
                             !.req = req, !.sent = @ + 1]
              ELSE [@ EXCEPT !.pc = "done", !.op = "subscribe_private", !.args = args,
                             !.outcome = Err("url::ParseError", NoEnvelope)]]
    /\ api_key' = ""
    /\ UNCHANGED basket_url

subscribe_private(c, In) ==
    \E email \in In.emails, newsletters \in In.newsletters, opts \in In.subscribe_opts :
        LET form == Subscribe(email, join(newsletters, ","), opts)
            joined == url_join(basket_url, <<"news", "subscribe">>)
        IN Begin(c, "subscribe_private",
                 [NoArgs EXCEPT !.email = email, !.newsletters = newsletters, !.opts = opts],
                 joined, Post(joined.url, << <<"api-key", <<api_key>> >> >>, form))

(* Variant: the email-addressed unsubscribe on a fixed path *)
unsubscribe_fixed_path(c, In) ==
    \E token \in In.tokens, newsletters \in In.newsletters, optout \in YesNo :
        LET form == << <<"email", <<token>> >> >> \o Unsubscribe(join(newsletters, ","), optout)
            joined == url_join(basket_url, <<"news", "unsubscribe">>)
        IN Begin(c, "unsubscribe",
                 [NoArgs EXCEPT !.token = token, !.newsletters = newsletters,
                                !.optout = optout],
                 joined, Post(joined.url, <<>>, form))

unsubscribe(c, In) ==
    \E token \in In.tokens, newsletters \in In.newsletters, optout \in YesNo :
        LET form == Unsubscribe(join(newsletters, ","), optout)
            joined == url_join(basket_url, <<"news", "unsubscribe", token>>)
        IN Begin(c, "unsubscribe",
                 [NoArgs EXCEPT !.token = token, !.newsletters = newsletters,
                                !.optout = optout],
                 joined, Post(joined.url, <<>>, form))

get_user(c, In) ==
    \E token \in In.tokens :
        LET joined == url_join(basket_url, <<"news", "user", token>>)
        IN Begin(c, "get_user", [NoArgs EXCEPT !.token = token],
                 joined, Get(joined.url, <<>>))

update_user(c, In) ==
    \E email \in In.emails, token \in In.tokens, opts \in In.update_opts :
        LET form == UpdateUser(Some(email), opts)
            joined == url_join(basket_url, <<"news", "user", token>>)
        IN Begin(c, "update_user",
                 [NoArgs EXCEPT !.email = email, !.token = token, !.opts = opts],
                 joined, Post(joined.url, <<>>, form))

newsletters(c, In) ==
    LET joined == url_join(basket_url, <<"news", "newsletters">>)
    IN Begin(c, "newsletters", NoArgs, joined, Get(joined.url, <<>>))

debug_user(c, In) ==
    \E email \in In.emails, supertoken \in In.supertokens :
        LET joined == url_join(basket_url, <<"news", "debug-user">>)
        IN Begin(c, "debug_user",
                 [NoArgs EXCEPT !.email = email, !.supertoken = supertoken],
                 joined, Get(joined.url, DebugUser(email, supertoken)))

lookup_user(c, In) ==
    \E email \in In.emails :
        LET joined == url_join(basket_url, <<"news", "lookup-user">>)
        IN Begin(c, "lookup_user", [NoArgs EXCEPT !.email = email],
                 joined, Get(joined.url, LookupUser(email, api_key)))

recover(c, In) ==
    \E email \in In.emails :
        LET form == Recover(email)
            joined == url_join(basket_url, <<"news", "recover">>)
        IN Begin(c, "recover", [NoArgs EXCEPT !.email = email],
                 joined, Post(joined.url, <<>>, form))

(* Variant: a transport error is retried once before it is returned *)
send_err_retry(c) ==
    /\ calls[c].pc = "send"
    /\ calls' = [calls EXCEPT ![c] =
          IF @.sent < 2
          THEN [@ EXCEPT !.sent = @ + 1]
          ELSE [@ EXCEPT !.pc = "done", !.args = NoArgs, !.req = NoRequest,
                         !.outcome = Err("reqwest::Error", NoEnvelope)]]
    /\ UNCHANGED <<api_key, basket_url>>

(* `.send().await?` resolves with a transport error: the call returns it *)
send_err(c) ==
    /\ calls[c].pc = "send"
    /\ calls' = [calls EXCEPT ![c] =
          [@ EXCEPT !.pc = "done", !.args = NoArgs, !.req = NoRequest,
                    !.outcome = Err("reqwest::Error", NoEnvelope)]]
    /\ UNCHANGED <<api_key, basket_url>>

(* `.send().await?` resolves with a response, whatever its status code *)
send_ok(c, In) ==
    /\ calls[c].pc = "send"
    /\ \E res \in In.responses :
          calls' = [calls EXCEPT ![c] =
             [@ EXCEPT !.pc = "json", !.args = NoArgs, !.req = NoRequest, !.res = res]]
    /\ UNCHANGED <<api_key, basket_url>>

(* Variant: a 4xx/5xx status code is turned into an error before decoding *)
json_await_error_for_status(c) ==
    /\ calls[c].pc = "json"
    /\ calls' = [calls EXCEPT ![c] =
          [@ EXCEPT !.pc = "done",
                    !.outcome = IF calls[c].res.http_status >= 400
                                THEN Err("reqwest::Error", NoEnvelope)
                                ELSE Match(calls[c].op, ApiResponse(calls[c].res.body))]]
    /\ UNCHANGED <<api_key, basket_url>>

(* `res.json::<ApiResponse>().await` and the match on it *)
json_await(c) ==
    /\ calls[c].pc = "json"
    /\ calls' = [calls EXCEPT ![c] =
          [@ EXCEPT !.pc = "done",
                    !.outcome = Match(calls[c].op, ApiResponse(calls[c].res.body))]]
    /\ UNCHANGED <<api_key, basket_url>>

(* the caller takes the Result; it may call again *)
Return(c) ==
    /\ calls[c].pc = "done"
    /\ calls' = [calls EXCEPT ![c] = Idle]
    /\ UNCHANGED <<api_key, basket_url>>

----------------------------------------------------------------------------
(* Inputs.  One caller exercising every argument and response shape, and  *)
(* several callers sharing the client, each with arguments of its own.    *)

AllInputs ==
    [emails |-> Emails, tokens |-> Tokens, supertokens |-> SuperTokens,
     newsletters |-> NewsletterLists,
     subscribe_opts |-> Opt(SubscribeOpts), update_opts |-> Opt(UpdateUserOpts),
     responses |-> Responses]

OwnEmail(c) == "caller-" \o ToString(c) \o "@example.com"
OwnToken(c) == "token-" \o ToString(c)
OwnDesc(c) == JString("for caller " \o ToString(c))

SharedEmail == "shared@example.com"

StatusBody(status, desc) ==
    [kind |-> "object",
     members |-> <<[key |-> "status", val |-> JString(status)],
                   [key |-> "desc", val |-> desc]>>]

OwnInputs(c) ==
    [emails |-> {OwnEmail(c), SharedEmail}, tokens |-> {OwnToken(c)},
     supertokens |-> SuperTokens,
     newsletters |-> {<<"news1", "news2">>},
     subscribe_opts |-> {None}, update_opts |-> {None},
     responses |->
        { [http_status |-> 200, body |-> StatusBody("ok", JString("Token not found"))],
          [http_status |-> 200, body |-> StatusBody("error", OwnDesc(c))] }]

Step(c, In) ==
    \/ subscribe(c, In)
    \/ subscribe_private(c, In)
    \/ unsubscribe(c, In)
    \/ get_user(c, In)
    \/ update_user(c, In)
    \/ newsletters(c, In)
    \/ debug_user(c, In)
    \/ lookup_user(c, In)
    \/ recover(c, In)
    \/ send_err(c)
    \/ send_ok(c, In)
    \/ json_await(c)
    \/ Return(c)

Next == Step(MainCaller, AllInputs)

Spec == Init /\ [][Next]_vars

NextConc == \E c \in Callers : Step(c, OwnInputs(c))

SpecConc == Init /\ [][NextConc]_vars

----------------------------------------------------------------------------
(* What the claims speak of, stated on the wire data itself *)

Returned(c) == calls[c].pc = "done"
Sending(c) == calls[c].pc = "send"
GotResponse(c) == calls[c].res # NoResponse

StatusMembers(body) == {i \in DOMAIN body.members : body.members[i].key = "status"}

(* the body is a JSON object with one `status` member, whose value is s *)
EnvelopeWith(body, s) ==
    /\ body.kind = "object"
    /\ Cardinality(StatusMembers(body)) = 1
    /\ \A i \in StatusMembers(body) : body.members[i].val = JString(s)

(* every top-level key of the body other than `status`, with its value *)
PayloadKeys(body) == {body.members[i].key : i \in DOMAIN body.members} \ {"status"}
LastIndex(body, k) ==
    CHOOSE i \in DOMAIN body.members :
        /\ body.members[i].key = k
        /\ \A j \in DOMAIN body.members : body.members[j].key = k => j <= i
Payload(body) == [k \in PayloadKeys(body) |-> body.members[LastIndex(body, k)].val]

DomainFailure(c) == calls[c].outcome.kind = "Err" /\ calls[c].outcome.err.type = "ApiResponse"
OtherFailure(c) == calls[c].outcome.kind = "Err" /\ calls[c].outcome.err.type # "ApiResponse"
Success(c) == calls[c].outcome.kind = "Ok"

Names(pairs) == {pairs[i][1] : i \in DOMAIN pairs}
NameSeq(pairs) == [i \in DOMAIN pairs |-> pairs[i][1]]
SetFields(opts) == IF opts = None THEN {} ELSE {f \in DOMAIN opts[1] : opts[1][f] # None}

----------------------------------------------------------------------------
\* C1: a write operation returns success (unit) exactly when the body is an
\* envelope with status ok; an envelope with status error makes it return an
\* error wrapping that envelope; a failed HTTP call or a body that is no
\* envelope makes it return an error wrapping that failure.
C1_WriteContract ==
    \A c \in Callers :
        (Returned(c) /\ calls[c].op \in WriteOps) =>
            /\ Success(c) <=> (GotResponse(c) /\ EnvelopeWith(calls[c].res.body, "ok"))
            /\ Success(c) => calls[c].outcome.value = Unit
            /\ (GotResponse(c) /\ EnvelopeWith(calls[c].res.body, "error")) =>
                  /\ DomainFailure(c)
                  /\ calls[c].outcome.err.envelope.status = "Error"
                  /\ calls[c].outcome.err.envelope.data
                        = ValueObject(Payload(calls[c].res.body))
            /\ (~GotResponse(c)
                \/ (~EnvelopeWith(calls[c].res.body, "ok")
                    /\ ~EnvelopeWith(calls[c].res.body, "error"))) => OtherFailure(c)

C1_Witness ==
    \E c \in Callers :
        /\ Returned(c) /\ calls[c].op = "recover"
        /\ EnvelopeWith(calls[c].res.body, "ok")
        /\ calls[c].outcome = Ok(Unit)

\* C2: a read operation whose response is an envelope with status ok returns
\* exactly the object of all top-level keys other than status; with status
\* error it returns an error and no data.
C2_ReadContract ==
    \A c \in Callers :
        (Returned(c) /\ calls[c].op \in ReadOps /\ GotResponse(c)) =>
            /\ EnvelopeWith(calls[c].res.body, "ok") =>
                  calls[c].outcome = Ok(ValueObject(Payload(calls[c].res.body)))
            /\ EnvelopeWith(calls[c].res.body, "error") =>
                  /\ calls[c].outcome.kind = "Err"
                  /\ calls[c].outcome.value = Unit

C2_Witness ==
    \E c \in Callers :
        /\ Returned(c) /\ calls[c].op = "get_user"
        /\ EnvelopeWith(calls[c].res.body, "ok")
        /\ Success(c)
        /\ DOMAIN calls[c].outcome.value.obj = {"desc"}

\* C3: a domain failure renders as the word "error" when the envelope has no
\* payload and as the compact JSON of the payload otherwise.
C3_ErrorRendering ==
    \A c \in Callers :
        (Returned(c) /\ DomainFailure(c)) =>
            LET e == calls[c].outcome.err.envelope
            IN ApiResponseDisplay(e) =
                  IF is_null(e.data) \/ e.data.obj = EmptyObject
                  THEN <<"error">>
                  ELSE to_string(e.data)

C5_ApiKeyOnlyPrivileged ==
    \A c \in Callers :
        Sending(c) =>
            LET r == calls[c].req
            IN IF calls[c].op \in {"subscribe_private", "lookup_user"}
               THEN /\ \E i \in DOMAIN r.query : r.query[i] = <<"api-key", <<api_key>> >>
                    /\ "api-key" \notin Names(r.form)
               ELSE "api-key" \notin Names(r.query) \cup Names(r.form)

C5_Witness ==
    \E c \in Callers :
        /\ Sending(c) /\ calls[c].op = "subscribe_private"
        /\ calls[c].req.query = << <<"api-key", <<api_key>> >> >>

\* C6: the form of subscribe/subscribe_private has exactly email, newsletters
\* and one field per set option; the form of update_user has email and one
\* field per set option; no unset option is sent at all.
C6_UnsetOptionsOmitted ==
    \A c \in Callers :
        (Sending(c) /\ calls[c].op \in {"subscribe", "subscribe_private", "update_user"}) =>
            LET form == calls[c].req.form
                opts == calls[c].args.opts
                fixed == IF calls[c].op = "update_user"
                         THEN {"email"} ELSE {"email", "newsletters"}
            IN /\ Names(form) = fixed \cup SetFields(opts)
               /\ Len(form) = Cardinality(fixed) + Cardinality(SetFields(opts))
               /\ \A i \in DOMAIN form :
                     form[i][1] \in SetFields(opts) =>
                        form[i][2] = <<opts[1][form[i][1]][1]>>

C6_Witness ==
    \E c \in Callers :
        /\ Sending(c) /\ calls[c].op = "subscribe"
        /\ SetFields(calls[c].args.opts) = {"country"}
        /\ Len(calls[c].req.form) = 3

\* C7: each operation sends the method, path, query and form of the wire
\* table, on the origin of the configured base URL, with the caller's token
\* in the path.
WireTable(op, a) ==
    CASE op = "subscribe" ->
            [method |-> "POST", path |-> <<"news", "subscribe">>,
             query |-> <<>>, form |-> <<"email", "newsletters">>]
      [] op = "subscribe_private" ->
            [method |-> "POST", path |-> <<"news", "subscribe">>,
             query |-> <<"api-key">>, form |-> <<"email", "newsletters">>]
      [] op = "unsubscribe" ->
            [method |-> "POST", path |-> <<"news", "unsubscribe", a.token>>,
             query |-> <<>>, form |-> <<"newsletters", "optout">>]
      [] op = "get_user" ->
            [method |-> "GET", path |-> <<"news", "user", a.token>>,
             query |-> <<>>, form |-> <<>>]
      [] op = "update_user" ->
            [method |-> "POST", path |-> <<"news", "user", a.token>>,
             query |-> <<>>, form |-> <<"email">>]
      [] op = "newsletters" ->
            [method |-> "GET", path |-> <<"news", "newsletters">>,
             query |-> <<>>, form |-> <<>>]
      [] op = "debug_user" ->
            [method |-> "GET", path |-> <<"news", "debug-user">>,
             query |-> <<"email", "supertoken">>, form |-> <<>>]
      [] op = "lookup_user" ->
            [method |-> "GET", path |-> <<"news", "lookup-user">>,
             query |-> <<"email", "api-key">>, form |-> <<>>]
      [] op = "recover" ->
            [method |-> "POST", path |-> <<"news", "recover">>,
             query |-> <<>>, form |-> <<"email">>]

ArgOf(name, a) ==
    CASE name = "email" -> <<a.email>>
      [] name = "supertoken" -> <<a.supertoken>>
      [] name = "optout" -> <<a.optout>>
      [] name = "api-key" -> <<api_key>>
      [] name = "newsletters" -> join(a.newsletters, ",")

C8_SingleRoundTrip ==
    \A c \in Callers :
        /\ calls[c].sent <= 1
        /\ calls[c].pc \in {"send", "json"} => calls[c].sent = 1
        /\ Returned(c) <=> calls[c].outcome.kind \in {"Ok", "Err"}
        /\ ~Returned(c) => calls[c].outcome = Pending
        /\ (Returned(c) /\ calls[c].outcome.err.type = "url::ParseError") => calls[c].sent = 0
        /\ (Returned(c) /\ basket_url.cannot_be_a_base) =>
              /\ calls[c].outcome.err.type = "url::ParseError"
              /\ calls[c].sent = 0

C8_Witness ==
    \E c \in Callers :
        /\ Returned(c) /\ ~GotResponse(c)
        /\ calls[c].outcome.err.type = "reqwest::Error"
        /\ calls[c].sent = 1

\* C9: with several callers sharing the client, the api key and the base URL
\* never change, and a call's request is a function of its operation and
\* arguments alone, its outcome a function of its operation and response alone.
C9_CallsIndependent ==
    \A c, d \in Callers :
        /\ (Sending(c) /\ Sending(d) /\ calls[c].op = calls[d].op
            /\ calls[c].args = calls[d].args) => calls[c].req = calls[d].req
        /\ (Returned(c) /\ Returned(d) /\ calls[c].op = calls[d].op
            /\ calls[c].res = calls[d].res) => calls[c].outcome = calls[d].outcome

C9_SharedClient ==
    /\ []C9_CallsIndependent
    /\ [][api_key' = api_key /\ basket_url' = basket_url]_vars

C9_Witness ==
    \E c, d \in Callers :
        /\ c # d
        /\ Sending(c) /\ calls[c].op = "lookup_user"
        /\ calls[d].pc = "json" /\ calls[d].op = "subscribe_private"

\* C10: the HTTP status code of the response plays no part: an envelope with
\* status ok under a non-2xx code is a success, an envelope with status error
\* under a 2xx code is a domain failure.
C10_HttpStatusIgnored ==
    \A c \in Callers :
        (Returned(c) /\ GotResponse(c)) =>
            /\ (calls[c].res.http_status = 500 /\ EnvelopeWith(calls[c].res.body, "ok"))
                  => Success(c)
            /\ (calls[c].res.http_status = 200 /\ EnvelopeWith(calls[c].res.body, "error"))
                  => DomainFailure(c)

C10_Witness ==
    \E c \in Callers :
        /\ Returned(c) /\ calls[c].res.http_status = 500
        /\ EnvelopeWith(calls[c].res.body, "ok")
        /\ Success(c)

====
